---- MODULE Spec2Model ----
(***************************************************************************)
(* State-machine model of src/rail_booking.py: one booking run of main(),  *)
(* its two thread-pool fan-outs (seat-layout probes, seat reservations),   *)
(* the OTP loop, the passenger prompts, the confirm call and the rollback  *)
(* handler.  Strings that the code lowers, strips, splits or matches are   *)
(* sequences of one-character strings.                                     *)
(***************************************************************************)
EXTENDS Integers, Sequences, FiniteSets, TLC

(* ------------------------------ bounds --------------------------------- *)
\* largest NEED_SEATS a run is started with
MaxNeed == 2
\* number of trains the search endpoint can return
NumTrains == 4
\* seats per coach row in a seat-layout response
SeatsPerCoach == 1
\* cells of the layout a seat-matcher call of its own is given
MaxCells == 3

(* ------------------------- program constants --------------------------- *)
\* fixed probe width
K == 3
\* range(1, 4): the OTP loop body runs for attempt = 1, 2, 3
OtpAttempts == 3

(* --------------------------- string helpers ---------------------------- *)
Range(s) == {s[i] : i \in 1..Len(s)}

Digits == {"0", "1", "2", "3", "4", "5", "6", "7", "8", "9"}

\* str.lower() on one character
LowerCh(c) ==
  CASE c = "A" -> "a" [] c = "B" -> "b" [] c = "C" -> "c" [] c = "K" -> "k"
    [] c = "H" -> "h" [] c = "S" -> "s" [] c = "Y" -> "y" [] c = "E" -> "e"
    [] c = "N" -> "n" [] c = "O" -> "o" [] c = "D" -> "d" [] c = "U" -> "u"
    [] c = "L" -> "l" [] c = "T" -> "t" [] c = "I" -> "i" [] c = "M" -> "m"
    [] c = "F" -> "f" [] OTHER -> c

\* str.lower()
Lower(s) == [i \in 1..Len(s) |-> LowerCh(s[i])]

RECURSIVE LStrip(_)
LStrip(s) == IF s # <<>> /\ Head(s) = " " THEN LStrip(Tail(s)) ELSE s

RECURSIVE RStrip(_)
RStrip(s) ==
  IF s # <<>> /\ s[Len(s)] = " " THEN RStrip(SubSeq(s, 1, Len(s) - 1)) ELSE s

\* str.strip()
Strip(s) == RStrip(LStrip(s))

\* str.split(sep) for a one-character separator: always at least one part
RECURSIVE SplitAcc(_, _, _, _)
SplitAcc(s, sep, cur, parts) ==
  IF s = <<>> THEN Append(parts, cur)
  ELSE IF Head(s) = sep THEN SplitAcc(Tail(s), sep, <<>>, Append(parts, cur))
  ELSE SplitAcc(Tail(s), sep, Append(cur, Head(s)), parts)

Split(s, sep) == SplitAcc(s, sep, <<>>, <<>>)

\* the Python test  a in b  on strings
IsSubstring(a, b) ==
  \E i \in 0..(Len(b) - Len(a)) : SubSeq(b, i + 1, i + Len(a)) = a

\* re.match(r"^\d{4,6}$", otp) on an already stripped entry
OtpWellFormed(otp) ==
  /\ Len(otp) >= 4
  /\ Len(otp) <= 6
  /\ \A i \in 1..Len(otp) : otp[i] \in Digits

\* input(query).strip()
ask_question(typed) == Strip(typed)

\* (answer or "").strip().lower() in ("y", "yes")
IsYes(answer) == Lower(Strip(answer)) \in {<<"y">>, <<"y", "e", "s">>}

(* ----------------------------- seat matcher ---------------------------- *)
\* all seat cells of the coaches, coach by coach, row by row
RECURSIVE FlattenRows(_)
FlattenRows(rows) ==
  IF rows = <<>> THEN <<>> ELSE Head(rows) \o FlattenRows(Tail(rows))

RECURSIVE FlattenCoaches(_)
FlattenCoaches(coaches) ==
  IF coaches = <<>> THEN <<>>
  ELSE FlattenRows(Head(coaches).layout) \o FlattenCoaches(Tail(coaches))

\* the part after the last "-"
SeatNumPart_last(seat_number) ==
  LET parts == Split(seat_number, "-")
  IN  parts[Len(parts)]

\* parts[1] if len(parts) > 1 else parts[-1]   (Python indexes from 0)
SeatNumPart(seat_number) ==
  LET parts == Split(seat_number, "-")
  IN  IF Len(parts) > 1 THEN parts[2] ELSE parts[Len(parts)]

\* the cell test without the availability flag
SeatMatches_any(seat, preferred_seats) ==
  /\ seat.seat_number # <<>>
  /\ (preferred_seats # <<>> => SeatNumPart(seat.seat_number) \in Range(preferred_seats))

\* lines 154-163: is the cell taken into the result
SeatMatches(seat, preferred_seats) ==
  /\ seat.seat_availability = 1
  /\ seat.seat_number # <<>>
  /\ (preferred_seats # <<>> => SeatNumPart(seat.seat_number) \in Range(preferred_seats))

SeatEntry(seat) == [ticket_id |-> seat.ticket_id, seat_number |-> seat.seat_number]

\* a test that lets one seat too many through
IsFull_late(available_seats, needed) == Len(available_seats) > needed

\* line 151: len(available_seats) >= needed
IsFull(available_seats, needed) == Len(available_seats) >= needed

\* the triple loop: the length test comes before each cell is looked at
RECURSIVE ScanSeats(_, _, _, _)
ScanSeats(cells, needed, preferred_seats, available_seats) ==
  IF cells = <<>> THEN available_seats
  ELSE IF IsFull(available_seats, needed) THEN available_seats
  ELSE ScanSeats(Tail(cells), needed, preferred_seats,
                 IF SeatMatches(Head(cells), preferred_seats)
                 THEN Append(available_seats, SeatEntry(Head(cells)))
                 ELSE available_seats)

\* every coach is searched whatever the list says
CoachesToSearch_all(seat_layout, preferred_coaches) == seat_layout

\* lines 134-138
CoachesToSearch(seat_layout, preferred_coaches) ==
  IF preferred_coaches # <<>>
  THEN LET lower_coaches == {Lower(Strip(preferred_coaches[i])) : i \in 1..Len(preferred_coaches)}
       IN  SelectSeq(seat_layout, LAMBDA c : Lower(c.floor_name) \in lower_coaches)
  ELSE seat_layout

\* the same loop without the early return
RECURSIVE ScanSeatsNoCap(_, _, _, _)
ScanSeatsNoCap(cells, needed, preferred_seats, available_seats) ==
  IF cells = <<>> THEN available_seats
  ELSE ScanSeatsNoCap(Tail(cells), needed, preferred_seats,
                 IF SeatMatches(Head(cells), preferred_seats)
                 THEN Append(available_seats, SeatEntry(Head(cells)))
                 ELSE available_seats)

\* find_available_seats with the early return left out
find_available_seats_nocap(data, needed, preferred_coaches, preferred_seats) ==
  IF ~data.isdict \/ data.seatLayout = <<>> THEN <<>>
  ELSE ScanSeatsNoCap(FlattenCoaches(CoachesToSearch(data.seatLayout, preferred_coaches)),
                      needed, preferred_seats, <<>>)

\* data is the response body: [isdict, seatLayout]
find_available_seats(data, needed, preferred_coaches, preferred_seats) ==
  IF ~data.isdict \/ data.seatLayout = <<>> THEN <<>>
  ELSE ScanSeats(FlattenCoaches(CoachesToSearch(data.seatLayout, preferred_coaches)),
                 needed, preferred_seats, <<>>)

(* ------------------------------- trains -------------------------------- *)
TrainIds == 1..NumTrains

\* trip_number of a train of the search result
TrainName(t) == IF t % 2 = 1 THEN <<"A", "B">> ELSE <<"B">>

\* seat_types of a train: trains 2, 6, ... do not offer the class S, the
\* others advertise 1 or 3 seats of it
TrainSeatTypes(t) ==
  IF t % 4 = 2
  THEN << [type |-> <<"C">>, online |-> 5, trip_id |-> t, trip_route_id |-> 10 + t] >>
  ELSE << [type |-> <<"C">>, online |-> 5, trip_id |-> 50 + t, trip_route_id |-> 60 + t],
          [type |-> <<"S">>, online |-> (IF t % 4 = 1 THEN 1 ELSE 3),
           trip_id |-> t, trip_route_id |-> 10 + t] >>

Train(t) == [id |-> t, trip_number |-> TrainName(t), seat_types |-> TrainSeatTypes(t),
             boarding_point_id |-> 20 + t]

\* the train lists the search endpoint may answer with: the first n trains
TrainList(n) == [t \in 1..n |-> Train(t)]

SearchResults == {TrainList(n) : n \in 0..NumTrains}

\* next((x for x in st_list if (x.get("type") or "").lower() == seat_class), None)
SeatTypeFor(train, seat_class) ==
  LET m == SelectSeq(train.seat_types, LAMBDA x : Lower(x.type) = seat_class)
  IN  IF m = <<>> THEN <<>> ELSE <<Head(m)>>

_online_seats_for_class(train, seat_class) ==
  LET st == SeatTypeFor(train, seat_class)
  IN  IF st = <<>> THEN 0 ELSE st[1].online

\* sorted(trains, key=..., reverse=True): stable, equal keys keep their order
RECURSIVE InsertDesc(_, _, _)
InsertDesc(sorted, x, seat_class) ==
  IF sorted = <<>> THEN <<x>>
  ELSE IF _online_seats_for_class(Head(sorted), seat_class) >= _online_seats_for_class(x, seat_class)
       THEN <<Head(sorted)>> \o InsertDesc(Tail(sorted), x, seat_class)
       ELSE <<x>> \o sorted

RECURSIVE SortDesc(_, _, _)
SortDesc(trains, seat_class, acc) ==
  IF trains = <<>> THEN acc
  ELSE SortDesc(Tail(trains), seat_class, InsertDesc(acc, Head(trains), seat_class))

sorted_trains(trains, seat_class) == SortDesc(trains, seat_class, <<>>)

\* the first K trains in the order of the search result
Candidates_unsorted(trains, seat_class) ==
  SubSeq(trains, 1, IF Len(trains) < K THEN Len(trains) ELSE K)

\* sorted_trains[:K]
Candidates(trains, seat_class) ==
  LET s == sorted_trains(trains, seat_class)
  IN  SubSeq(s, 1, IF Len(s) < K THEN Len(s) ELSE K)

\* trains = [t for t in trains if TRAIN_NAME in trip_number.lower()]
NameFilter(trains, train_name) ==
  IF train_name # <<>>
  THEN SelectSeq(trains, LAMBDA t : IsSubstring(train_name, Lower(t.trip_number)))
  ELSE trains

(* ------------------------ seat-layout responses ------------------------ *)
CoachNames == << <<"K", "A">>, <<"K", "H">> >>

DigitCh(n) == CASE n = 1 -> "1" [] n = 2 -> "2" [] n = 3 -> "3" [] OTHER -> "4"

TicketId(t, c, s) == t * 100 + c * 10 + s

\* the layout of train t whose available cells are those of avail
LayoutOf(t, avail) ==
  [c \in 1..Len(CoachNames) |->
     [floor_name |-> CoachNames[c],
      layout |-> << [s \in 1..SeatsPerCoach |->
                      [seat_availability |-> IF <<c, s>> \in avail THEN 1 ELSE 0,
                       ticket_id |-> TicketId(t, c, s),
                       seat_number |-> CoachNames[c] \o <<"-", DigitCh(s)>>]] >>]]

Cells == (1..Len(CoachNames)) \X (1..SeatsPerCoach)

\* what a seat-layout request for train t can come back with
LayoutResponses(t) ==
  {[raised |-> TRUE, isdict |-> FALSE, seatLayout |-> <<>>],
   [raised |-> FALSE, isdict |-> FALSE, seatLayout |-> <<>>]}
  \cup {[raised |-> FALSE, isdict |-> TRUE, seatLayout |-> LayoutOf(t, a)] : a \in SUBSET Cells}

(* -------------------------------- state -------------------------------- *)
VARIABLES
  CONFIG,                 \* the configuration record of this run
  pc,                     \* where main() stands
  token,                  \* bearer token, <<>> for None
  candidates,             \* the trains that are probed
  futs,                   \* the futures of the running fan-out, in submit order
  finishOrder,            \* indexes of the finished futures, in completion order
  snap,                   \* futures already finished when as_completed started
  yielded,                \* futures as_completed has handed to the loop
  chosen,                 \* result of the winning probe, <<>> for None
  probe_errors,           \* candidates whose probe raised, in the order seen
  trip,                   \* the chosen trip, <<>> for None
  available_seats,        \* seats of the chosen trip
  results,                \* (ok, tid) per reserve future, in the order seen
  successes,              \* tids of the results with ok = True
  successfully_reserved,  \* the rollback set
  passenger_payload,      \* trip_id, trip_route_id, ticket_ids; <<>> before
  otp_payload,            \* passenger payload plus otp; <<>> for None
  otp_verified,
  main_passenger,         \* data.user of the accepted verify-otp response
  attempt,                \* the OTP loop variable
  passenger_details,      \* pname, passengerType, gender
  pidx,                   \* loop variable of the passenger prompts
  err,                    \* message of the exception main() caught
  errAt,                  \* the step that raised it
  rb,                     \* position of the release loop in the rollback set
  exitCode,               \* process exit code, -1 while running
  calls,                  \* requests main() itself has sent, in order
  srvReserved,            \* tickets whose reserve request the server accepted
  firstQualified,         \* first candidate whose probe finished with enough seats
  otpPrompts,             \* OTP prompts shown
  otpDigitEntries,        \* OTP entries so far that were 4 to 6 digits
  lastReserve,            \* the reserve request answered last: its ticket and answer
  lastProbe,              \* the seat-layout request answered last: its candidate, and did it raise
  trains,                 \* the search result after the name filter
  prompts,                \* the prompts shown so far and what came of the entry
  payment_url,            \* redirectUrl of the confirm response, <<>> before
  fanCalls,               \* per train and per ticket: answers to its fan-out requests
  sm                      \* a seat-matcher call on its own: input and result

cfgVars == <<CONFIG, sm>>
fanVars == <<futs, finishOrder, snap, yielded>>
selVars == <<candidates, chosen, probe_errors, trip, available_seats>>
resVars == <<results, successes, successfully_reserved>>
otpVars == <<passenger_payload, otp_payload, otp_verified, main_passenger, attempt, otpPrompts,
            otpDigitEntries>>
paxVars == <<passenger_details, pidx>>
errVars == <<err, errAt, rb, exitCode>>
ghostVars == <<srvReserved, firstQualified, lastReserve, lastProbe>>

vars == <<CONFIG, pc, token, candidates, futs, finishOrder, snap, yielded, chosen,
          probe_errors, trip, available_seats, results, successes,
          successfully_reserved, passenger_payload, otp_payload, otp_verified,
          main_passenger, attempt, passenger_details, pidx, err, errAt, rb,
          exitCode, calls, srvReserved, firstQualified, lastReserve, lastProbe, otpPrompts,
          otpDigitEntries, trains,
          prompts, payment_url, fanCalls, sm>>

\* the seat preferences a run is started with: none, one coach, one seat number
Preferences ==
  {[coaches |-> <<>>, seats |-> <<>>],
   [coaches |-> <<Lower(Strip(<<"K", "A">>))>>, seats |-> <<>>],
   [coaches |-> <<>>, seats |-> <<Strip(<<"1">>)>>]}

\* lines 195-210: the configurations a run is started with
Configs ==
  {[NEED_SEATS |-> n, SEAT_CLASS |-> Lower(<<"S">>), TRAIN_NAME |-> Lower(tn),
    PREFERRED_COACHES |-> p.coaches, PREFERRED_SEATS |-> p.seats] :
     n \in 1..MaxNeed, tn \in {<<>>, <<"A">>}, p \in Preferences}

\* one entry of calls
Call(ep, ticket_ids, ticket_id, otp, pd, raised) ==
  [ep |-> ep, ticket_ids |-> ticket_ids, ticket_id |-> ticket_id, otp |-> otp,
   pname |-> pd.pname, passengerType |-> pd.passengerType, gender |-> pd.gender,
   raised |-> raised]

NoDetails == [pname |-> <<>>, passengerType |-> <<>>, gender |-> <<>>]

\* lines 226-230 and the locals of main() before they are assigned
RunInit ==
  /\ token = <<>>
  /\ candidates = <<>>
  /\ futs = <<>>
  /\ finishOrder = <<>>
  /\ snap = {}
  /\ yielded = {}
  /\ chosen = <<>>
  /\ probe_errors = <<>>
  /\ trip = <<>>
  /\ available_seats = <<>>
  /\ results = <<>>
  /\ successes = <<>>
  /\ successfully_reserved = <<>>
  /\ passenger_payload = <<>>
  /\ otp_payload = <<>>
  /\ otp_verified = FALSE
  /\ main_passenger = <<>>
  /\ attempt = 1
  /\ passenger_details = NoDetails
  /\ pidx = 1
  /\ err = ""
  /\ errAt = ""
  /\ rb = 1
  /\ exitCode = -1
  /\ calls = <<>>
  /\ srvReserved = {}
  /\ firstQualified = 0
  /\ otpPrompts = 0
  /\ otpDigitEntries = 0
  /\ lastReserve = <<>>
  /\ lastProbe = <<>>
  /\ trains = <<>>
  /\ prompts = <<>>
  /\ payment_url = <<>>
  /\ fanCalls = <<>>

\* no seat-matcher call of its own is under way
SmIdle == [layout |-> <<>>, needed |-> 0, coaches |-> <<>>, seats |-> <<>>, out |-> <<>>]

Init ==
  /\ CONFIG \in Configs
  /\ pc = "signin"
  /\ sm = SmIdle
  /\ RunInit

\* raise Exception(msg) inside the try block: control goes to the handler at
\* line 564, which starts its release loop at the first ticket
Raise(msg) ==
  /\ pc' = "handler"
  /\ err' = msg
  /\ errAt' = pc
  /\ rb' = 1
  /\ UNCHANGED exitCode

NoRaise == UNCHANGED errVars

\* the typed line, surrounding blanks and letter case aside, is y or yes
Affirmative(typed) == Lower(Strip(typed)) \in {<<"y">>, <<"y", "e", "s">>}

\* one more entry of prompts: which prompt, and for a yes/no prompt whether
\* the entry was a yes (TRUE for the other prompts)
Prompted(kind, ok) == Append(prompts, [kind |-> kind, ok |-> ok])

\* one more answer recorded for key k = <<endpoint, id>> of the fan-out requests
Answered(k, answer) ==
  [x \in DOMAIN fanCalls \cup {k} |->
     IF x = k THEN (IF k \in DOMAIN fanCalls THEN Append(fanCalls[k], answer) ELSE <<answer>>)
     ELSE fanCalls[x]]

\* answers typed at a yes/no prompt
Answers == {<<"y", "e", "s">>, <<" ", "Y">>, <<"n", "o">>, <<>>}

(* ---------------------------- sign-in, search --------------------------- *)
\* lines 235-242: the response carries a token, or none, or the request raises
SignIn ==
  /\ pc = "signin"
  /\ \E r \in {"raise", "notoken", "token"} :
       /\ calls' = Append(calls, Call("SIGNIN", <<>>, 0, <<>>, NoDetails, r = "raise"))
       /\ IF r = "token"
          THEN /\ token' = <<"tok">>
               /\ pc' = "proceed"
               /\ NoRaise
          ELSE /\ token' = <<>>
               /\ Raise(IF r = "raise" THEN "network error" ELSE "Sign-in failed (no token received)")
  /\ UNCHANGED <<cfgVars, trains, prompts, payment_url, fanCalls, fanVars, selVars, resVars, otpVars, paxVars, ghostVars>>

\* lines 244-246
ProceedPrompt ==
  /\ pc = "proceed"
  /\ \E a \in Answers :
       /\ prompts' = Prompted("proceed", Affirmative(a))
       /\ IF IsYes(ask_question(a))
          THEN pc' = "search" /\ NoRaise
          ELSE Raise("Booking process aborted by user.")
  /\ UNCHANGED <<cfgVars, trains, payment_url, fanCalls, token, fanVars, selVars, resVars, otpVars, paxVars, ghostVars, calls>>

\* lines 248-283: search, name filter, sort, top K
Search ==
  /\ pc = "search"
  /\ \E raised \in BOOLEAN, found \in SearchResults :
       /\ raised => found = <<>>
       /\ calls' = Append(calls, Call("SEARCH", <<>>, 0, <<>>, NoDetails, raised))
       /\ LET filtered == NameFilter(found, CONFIG.TRAIN_NAME)
          IN  IF raised
              THEN Raise("network error") /\ UNCHANGED <<candidates, trains>>
              ELSE IF found = <<>>
              THEN Raise("No trains found for this route.") /\ UNCHANGED <<candidates, trains>>
              ELSE IF filtered = <<>>
              THEN Raise("The specified train was not found.") /\ UNCHANGED <<candidates, trains>>
              ELSE /\ trains' = filtered
                   /\ candidates' = Candidates(filtered, CONFIG.SEAT_CLASS)
                   /\ pc' = "probe_submit"
                   /\ NoRaise
  /\ UNCHANGED <<cfgVars, prompts, payment_url, fanCalls, token, fanVars, chosen, probe_errors, trip, available_seats,
                 resVars, otpVars, paxVars, ghostVars>>

(* --------------------------- fan-out machinery -------------------------- *)
Running == [st |-> "running", ok |-> FALSE, avail |-> <<>>]
Done(ok, avail) == [st |-> "done", ok |-> ok, avail |-> avail]

\* leaving the with block without waiting for the workers
AllDone_nowait == TRUE

\* the with block of an executor is left: shutdown(wait=True)
AllDone == \A i \in 1..Len(futs) : futs[i].st = "done"

\* the futures as_completed may hand out next: those finished before it
\* started come first, in no particular order; the others in the order in
\* which they finish
NextYield ==
  IF snap \ yielded # {} THEN snap \ yielded
  ELSE LET rest == SelectSeq(finishOrder, LAMBDA i : i \notin yielded)
       IN  IF rest = <<>> THEN {} ELSE {Head(rest)}

(* ------------------------------ probe fan-out --------------------------- *)
\* line 315: executor.submit(_probe_candidate, t), one candidate after the other
ProbeSubmit ==
  /\ pc = "probe_submit"
  /\ Len(futs) < Len(candidates)
  /\ futs' = Append(futs, Running)
  /\ UNCHANGED <<cfgVars, trains, prompts, payment_url, fanCalls, pc, token, finishOrder, snap, yielded, selVars, resVars,
                 otpVars, paxVars, errVars, ghostVars, calls>>

\* line 316: as_completed(futs) starts; trains is not read after line 283
\* and is dropped here
ProbeAsCompleted ==
  /\ pc = "probe_submit"
  /\ Len(futs) = Len(candidates)
  /\ snap' = {i \in 1..Len(futs) : futs[i].st = "done"}
  /\ yielded' = {}
  /\ trains' = <<>>
  /\ pc' = "probe_collect"
  /\ UNCHANGED <<cfgVars, prompts, payment_url, fanCalls, token, futs, finishOrder, selVars, resVars, otpVars,
                 paxVars, errVars, ghostVars, calls>>

\* lines 285-310, in a worker thread: _probe_candidate(candidates[i])
_probe_candidate(i) ==
  /\ pc \in {"probe_submit", "probe_collect", "probe_join"}
  /\ i \in 1..Len(futs)
  /\ futs[i].st = "running"
  /\ LET train == candidates[i]
         st == SeatTypeFor(train, CONFIG.SEAT_CLASS)
     IN  IF st = <<>>
         THEN /\ futs' = [futs EXCEPT ![i] = Done(FALSE, <<>>)]
              /\ UNCHANGED <<firstQualified, fanCalls, lastProbe>>
         ELSE \E resp \in LayoutResponses(train.id) :
                LET avail == find_available_seats(resp, CONFIG.NEED_SEATS,
                                 CONFIG.PREFERRED_COACHES, CONFIG.PREFERRED_SEATS)
                    ok == ~resp.raised /\ Len(avail) >= CONFIG.NEED_SEATS
                IN  /\ futs' = [futs EXCEPT ![i] = Done(ok, IF ok THEN avail ELSE <<>>)]
                    /\ firstQualified' = IF ok /\ firstQualified = 0 THEN i ELSE firstQualified
                    /\ fanCalls' = Answered(<<"SEAT_LAYOUT", train.id>>, "answered")
                    /\ lastProbe' = <<[cand |-> i, raised |-> resp.raised]>>
  /\ finishOrder' = Append(finishOrder, i)
  /\ UNCHANGED <<cfgVars, trains, prompts, payment_url, pc, token, snap, yielded, selVars, resVars, otpVars,
                 paxVars, errVars, srvReserved, lastReserve, calls>>

\* lines 316-323: one turn of the loop over as_completed(futs)
ProbeCollect ==
  /\ pc = "probe_collect"
  /\ \E i \in NextYield :
       /\ yielded' = yielded \cup {i}
       /\ IF futs[i].ok
          THEN /\ chosen' = <<[cand |-> i, available_seats |-> futs[i].avail]>>
               /\ pc' = "probe_join"
               /\ UNCHANGED probe_errors
          ELSE /\ probe_errors' = Append(probe_errors, i)
               /\ pc' = IF yielded' = 1..Len(futs) THEN "probe_join" ELSE "probe_collect"
               /\ UNCHANGED chosen
  /\ UNCHANGED <<cfgVars, trains, prompts, payment_url, fanCalls, token, candidates, futs, finishOrder, snap, trip, available_seats,
                 resVars, otpVars, paxVars, errVars, ghostVars, calls>>

\* the trip record built at lines 296-301 for candidate number i
TripOf(train, seat_class) ==
  LET st == SeatTypeFor(train, seat_class)[1]
  IN  [trip_id |-> st.trip_id, trip_route_id |-> st.trip_route_id,
       train_label |-> train.trip_number, boarding_point_id |-> train.boarding_point_id]

\* leaving the with block waits for every probe; then lines 325-357, after
\* which probe_errors is not read again
ProbeJoin ==
  /\ pc = "probe_join"
  /\ AllDone
  /\ futs' = <<>>
  /\ finishOrder' = <<>>
  /\ snap' = {}
  /\ yielded' = {}
  /\ IF chosen = <<>>
     THEN /\ Raise("No train found with enough available seats.")
          /\ UNCHANGED <<trip, available_seats>>
     ELSE /\ trip' = <<TripOf(candidates[chosen[1].cand], CONFIG.SEAT_CLASS)>>
          /\ available_seats' = chosen[1].available_seats
          /\ IF Len(chosen[1].available_seats) < CONFIG.NEED_SEATS
             THEN Raise("Could not find enough seats matching preferences.")
             ELSE pc' = "reserve_submit" /\ NoRaise
  /\ probe_errors' = <<>>
  /\ lastProbe' = <<>>
  /\ UNCHANGED <<cfgVars, trains, prompts, payment_url, fanCalls, token, candidates, chosen, resVars, otpVars,
                 paxVars, srvReserved, firstQualified, lastReserve, calls>>

(* ----------------------------- reserve fan-out -------------------------- *)
ticket_ids_to_reserve == [i \in 1..Len(available_seats) |-> available_seats[i].ticket_id]

\* line 383: executor.submit(_reserve_one, tid), one ticket after the other
ReserveSubmit ==
  /\ pc = "reserve_submit"
  /\ Len(futs) < Len(ticket_ids_to_reserve)
  /\ futs' = Append(futs, Running)
  /\ UNCHANGED <<cfgVars, trains, prompts, payment_url, fanCalls, pc, token, finishOrder, snap, yielded, selVars, resVars,
                 otpVars, paxVars, errVars, ghostVars, calls>>

\* line 384: as_completed(futures) starts
ReserveAsCompleted ==
  /\ pc = "reserve_submit"
  /\ Len(futs) = Len(ticket_ids_to_reserve)
  /\ snap' = {i \in 1..Len(futs) : futs[i].st = "done"}
  /\ yielded' = {}
  /\ pc' = IF Len(futs) = 0 THEN "reserve_check" ELSE "reserve_collect"
  /\ UNCHANGED <<cfgVars, trains, prompts, payment_url, fanCalls, token, futs, finishOrder, selVars, resVars, otpVars,
                 paxVars, errVars, ghostVars, calls>>

\* what a reserve request can come back with: it raises, or answers with a
\* status and a body whose data.error is set or not
ReserveResponses ==
  {[raised |-> TRUE, status |-> 0, error |-> FALSE],
   [raised |-> FALSE, status |-> 500, error |-> FALSE],
   [raised |-> FALSE, status |-> 200, error |-> TRUE],
   [raised |-> FALSE, status |-> 200, error |-> FALSE]}

\* a request that raised is taken for a success
ReserveOk_noexcept(rr) ==
  LET status_bad == rr.status >= 300
      data_has_error == rr.error
  IN  ~(status_bad \/ data_has_error)

\* lines 362-378: the first element of the tuple _reserve_one returns
ReserveOk(rr) ==
  LET status_bad == rr.status >= 300
      data_has_error == rr.error
  IN  ~rr.raised /\ ~(status_bad \/ data_has_error)

\* lines 361-378, in a worker thread: the request raises, or comes back with
\* a status >= 300, or with data.error set, or clean
_reserve_one(i) ==
  /\ pc \in {"reserve_submit", "reserve_collect"}
  /\ i \in 1..Len(futs)
  /\ futs[i].st = "running"
  /\ \E rr \in ReserveResponses :
       LET ok == ReserveOk(rr)
       IN  /\ futs' = [futs EXCEPT ![i] = Done(ok, <<>>)]
           /\ lastReserve' = <<[tid |-> ticket_ids_to_reserve[i], route_id |-> trip[1].trip_route_id,
                                 response |-> rr]>>
           /\ srvReserved' = IF ~rr.raised /\ rr.status < 300 /\ ~rr.error
                             THEN srvReserved \cup {ticket_ids_to_reserve[i]}
                             ELSE srvReserved
           /\ fanCalls' = Answered(<<"RESERVE", ticket_ids_to_reserve[i]>>, "answered")
  /\ finishOrder' = Append(finishOrder, i)
  /\ UNCHANGED <<cfgVars, trains, prompts, payment_url, pc, token, snap, yielded, selVars, resVars, otpVars,
                 paxVars, errVars, firstQualified, lastProbe, calls>>

\* a result tuple that names the ticket by its place in the order of completion
ResultOf_inorder(i) == [ok |-> futs[i].ok, tid |-> ticket_ids_to_reserve[Len(results) + 1]]

\* lines 376-378 and 387: fut.result() of the future of ticket i, the tuple
\* (ok, tid, reason) without the reason, which is only logged
ResultOf(i) == [ok |-> futs[i].ok, tid |-> ticket_ids_to_reserve[i]]

\* lines 384-389: one turn of the loop over as_completed(futures)
ReserveCollect ==
  /\ pc = "reserve_collect"
  /\ \E i \in NextYield :
       /\ yielded' = yielded \cup {i}
       /\ results' = Append(results, ResultOf(i))
       /\ pc' = IF yielded' = 1..Len(futs) THEN "reserve_check" ELSE "reserve_collect"
  /\ UNCHANGED <<cfgVars, trains, prompts, payment_url, fanCalls, token, futs, finishOrder, snap, selVars, successes,
                 successfully_reserved, otpVars, paxVars, errVars, ghostVars, calls>>

\* line 391
Successes(res) ==
  LET s == SelectSeq(res, LAMBDA r : r.ok)
  IN  [i \in 1..Len(s) |-> s[i].tid]

\* a slice that keeps one success too few
reserved_tids_short(succ, need) ==
  SubSeq(succ, 1, IF Len(succ) < need - 1 THEN Len(succ) ELSE need - 1)

\* line 426: [tid for _, tid, _ in successes][: NEED_SEATS]
reserved_tids(succ, need) ==
  SubSeq(succ, 1, IF Len(succ) < need THEN Len(succ) ELSE need)

\* the threshold one higher: as many successes as seats needed is not enough
Enough_more(succ, need) == Len(succ) > need

\* line 403, negated: the reservation goes on
Enough(succ, need) == ~(Len(succ) < need)

\* lines 391-429: partition the results, raise when too few succeeded,
\* otherwise commit the rollback set
ReserveCommit ==
  /\ pc = "reserve_check"
  /\ futs' = <<>>
  /\ finishOrder' = <<>>
  /\ snap' = {}
  /\ yielded' = {}
  /\ successes' = Successes(results)
  /\ IF ~Enough(successes', CONFIG.NEED_SEATS)
     THEN /\ Raise("Only reserved too few seat(s).")
          /\ UNCHANGED successfully_reserved
     ELSE /\ successfully_reserved' = reserved_tids(successes', CONFIG.NEED_SEATS)
          /\ pc' = "otp_prompt"
          /\ NoRaise
  /\ lastReserve' = <<>>
  /\ UNCHANGED <<cfgVars, trains, prompts, payment_url, fanCalls, token, selVars, results, otpVars, paxVars,
                 srvReserved, firstQualified, lastProbe, calls>>

(* ---------------------------------- OTP --------------------------------- *)
\* lines 431-433
OtpPrompt ==
  /\ pc = "otp_prompt"
  /\ \E a \in Answers :
       /\ prompts' = Prompted("otp_proceed", Affirmative(a))
       /\ IF IsYes(ask_question(a))
          THEN pc' = "send_otp" /\ NoRaise
          ELSE Raise("Booking process aborted by user.")
  /\ UNCHANGED <<cfgVars, trains, payment_url, fanCalls, token, fanVars, selVars, resVars, otpVars, paxVars, ghostVars, calls>>

\* lines 434-440: the passenger-details request that makes the server send the OTP
SendOtp ==
  /\ pc = "send_otp"
  /\ passenger_payload' = <<[trip_id |-> trip[1].trip_id,
                             trip_route_id |-> trip[1].trip_route_id,
                             ticket_ids |-> successfully_reserved]>>
  /\ \E r \in {"raise", "nosuccess", "success"} :
       /\ calls' = Append(calls, Call("PASSENGER_DETAILS", successfully_reserved, 0, <<>>,
                                      NoDetails, r = "raise"))
       /\ IF r = "success"
          THEN pc' = "otp_loop" /\ NoRaise
          ELSE Raise(IF r = "raise" THEN "network error" ELSE "API error while triggering OTP")
  /\ UNCHANGED <<cfgVars, trains, prompts, payment_url, fanCalls, token, fanVars, selVars, resVars, otp_payload, otp_verified,
                 main_passenger, attempt, otpPrompts, otpDigitEntries, paxVars, ghostVars>>

\* what the user types at the OTP prompt
OtpEntries == {<<>>, <<"1", "2", "a", "4">>, <<"1", "2", "3">>,
               <<"1", "2", "3", "4", "5", "6", "7">>, <<" ", "1", "2", "3", "4">>}

\* data.user of an accepted verify-otp response; <<>> when the field is absent
Users == {<<>>, <<[name |-> <<"U">>]>>}

\* a loop that runs one attempt more
OtpLoopOver_extra(next_attempt) == next_attempt > OtpAttempts + 1

\* for attempt in range(1, 4): the loop is over once attempt would pass 3
OtpLoopOver(next_attempt) == next_attempt > OtpAttempts

\* a malformed entry that is asked again without using up the attempt
AfterMalformed_keep(a) == a

\* line 450: continue goes on with the next value of the loop variable
AfterMalformed(a) == a + 1

\* 4 to 6 characters, all of them digits
FourToSixDigits(s) == Len(s) \in 4..6 /\ Range(s) \subseteq Digits

\* lines 446-463: one turn of the OTP loop
OtpAttempt ==
  /\ pc = "otp_loop"
  /\ otpPrompts' = otpPrompts + 1
  /\ \E typed \in OtpEntries :
       LET otp == ask_question(typed)
       IN  /\ prompts' = Prompted("otp", TRUE)
           /\ otpDigitEntries' = otpDigitEntries + (IF FourToSixDigits(otp) THEN 1 ELSE 0)
           /\ IF otp = <<>> \/ ~OtpWellFormed(otp)
              THEN /\ attempt' = AfterMalformed(attempt)
                   /\ pc' = IF OtpLoopOver(AfterMalformed(attempt)) THEN "otp_done" ELSE "otp_loop"
                   /\ NoRaise
                   /\ UNCHANGED <<otp_payload, otp_verified, main_passenger, calls>>
              ELSE /\ otp_payload' = <<[trip_id |-> passenger_payload[1].trip_id,
                                        trip_route_id |-> passenger_payload[1].trip_route_id,
                                        ticket_ids |-> passenger_payload[1].ticket_ids,
                                        otp |-> otp]>>
                   /\ \E r \in {"raise", "reject", "accept"}, user \in Users :
                        /\ r # "accept" => user = <<>>
                        /\ calls' = Append(calls, Call("VERIFY_OTP", otp_payload'[1].ticket_ids, 0,
                                                       otp, NoDetails, r = "raise"))
                        /\ IF r = "raise"
                           THEN /\ Raise("network error")
                                /\ UNCHANGED <<otp_verified, main_passenger, attempt>>
                           ELSE IF r = "accept"
                           THEN /\ main_passenger' = user
                                /\ otp_verified' = TRUE
                                /\ pc' = "otp_done"
                                /\ NoRaise
                                /\ UNCHANGED attempt
                           ELSE /\ attempt' = attempt + 1
                                /\ pc' = IF OtpLoopOver(attempt + 1) THEN "otp_done" ELSE "otp_loop"
                                /\ NoRaise
                                /\ UNCHANGED <<otp_verified, main_passenger>>
  /\ UNCHANGED <<cfgVars, trains, payment_url, fanCalls, token, fanVars, selVars, resVars,
                 passenger_payload, paxVars, ghostVars>>

\* lines 465-468: after the loop
OtpDone ==
  /\ pc = "otp_done"
  /\ IF ~otp_verified
     THEN /\ Raise("OTP verification failed after 3 attempts.")
          /\ UNCHANGED paxVars
     ELSE IF main_passenger = <<>>
     THEN /\ Raise("'NoneType' object has no attribute 'get'")
          /\ UNCHANGED paxVars
     ELSE /\ passenger_details' = [pname |-> <<main_passenger[1].name>>,
                                   passengerType |-> << <<"A", "d", "u", "l", "t">> >>,
                                   gender |-> << <<"m", "a", "l", "e">> >>]
          /\ pidx' = 1
          /\ pc' = "passengers"
          /\ NoRaise
  /\ UNCHANGED <<cfgVars, trains, prompts, payment_url, fanCalls, token, fanVars, selVars, resVars, otpVars, ghostVars, calls>>

(* ------------------------ passengers and confirmation ------------------- *)
\* what the user types at the three prompts for one more passenger
PassengerEntries ==
  {[name |-> <<"P">>, ptype |-> <<"C", "h", "i", "l", "d">>, gender |-> <<"F", "e", "m", "a", "l", "e">>],
   [name |-> <<"Q">>, ptype |-> <<"x">>, gender |-> <<>>]}

\* lines 477-481
NormType(ptype) ==
  LET ptype_l == Lower(Strip(ptype))
  IN  IF ptype_l \notin {<<"a", "d", "u", "l", "t">>, <<"c", "h", "i", "l", "d">>,
                         <<"a", "d", "l", "t">>}
      THEN <<"a", "d", "u", "l", "t">> ELSE ptype_l

\* lines 484-488
NormGender(gender) ==
  LET gender_l == Lower(Strip(gender))
  IN  IF gender_l \notin {<<"m", "a", "l", "e">>, <<"f", "e", "m", "a", "l", "e">>}
      THEN <<"m", "a", "l", "e">> ELSE gender_l

\* a loop that asks for one passenger too many
MorePassengers_extra(i, need) == i < need + 1

\* for i in range(1, NEED_SEATS)
MorePassengers(i, need) == i < need

\* lines 471-488: one turn of the passenger loop
CollectPassenger ==
  /\ pc = "passengers"
  /\ MorePassengers(pidx, CONFIG.NEED_SEATS)
  /\ \E e \in PassengerEntries :
       passenger_details' =
         [pname |-> Append(passenger_details.pname, ask_question(e.name)),
          passengerType |-> Append(passenger_details.passengerType, NormType(ask_question(e.ptype))),
          gender |-> Append(passenger_details.gender, NormGender(ask_question(e.gender)))]
  /\ prompts' = prompts \o <<[kind |-> "passenger_name", ok |-> TRUE],
                              [kind |-> "passenger_type", ok |-> TRUE],
                              [kind |-> "passenger_gender", ok |-> TRUE]>>
  /\ pidx' = pidx + 1
  /\ UNCHANGED <<cfgVars, trains, payment_url, fanCalls, pc, token, fanVars, selVars, resVars, otpVars, errVars,
                 ghostVars, calls>>

\* an empty answer counts as a yes, too
PaymentYes_default(confirmation) ==
  confirmation = <<>> \/ Lower(confirmation) \in {<<"y", "e", "s">>, <<"y">>}

\* line 504, negated: confirmation.lower() in ("yes", "y")
PaymentYes(confirmation) == Lower(confirmation) \in {<<"y", "e", "s">>, <<"y">>}

\* lines 503-505: confirmation.lower() in ("yes", "y")
PaymentPrompt ==
  /\ pc = "passengers"
  /\ ~MorePassengers(pidx, CONFIG.NEED_SEATS)
  /\ \E a \in Answers :
       /\ prompts' = Prompted("payment", Affirmative(a))
       /\ IF PaymentYes(ask_question(a))
          THEN pc' = "confirm" /\ NoRaise
          ELSE Raise("Booking cancelled by user.")
  /\ UNCHANGED <<cfgVars, trains, payment_url, fanCalls, token, fanVars, selVars, resVars, otpVars, paxVars, ghostVars, calls>>

\* lines 507-553: build the confirm payload, send it, look at the answer
Confirm ==
  /\ pc = "confirm"
  /\ IF otp_payload = <<>>
     THEN Raise("Internal error: OTP payload missing.") /\ UNCHANGED <<calls, payment_url>>
     ELSE \E r \in {"raise", "status_not_200", "no_redirect", "redirect"} :
            /\ calls' = Append(calls, Call("CONFIRM", passenger_payload[1].ticket_ids, 0,
                                           otp_payload[1].otp, passenger_details, r = "raise"))
            /\ IF r = "redirect"
               THEN payment_url' = <<"url">> /\ pc' = "browser" /\ NoRaise
               ELSE /\ Raise(IF r = "raise" THEN "network error" ELSE "Could not get payment URL.")
                    /\ UNCHANGED payment_url
  /\ UNCHANGED <<cfgVars, trains, prompts, fanCalls, token, fanVars, selVars, resVars, otpVars, paxVars, ghostVars>>

\* lines 554-562: open the payment link; main() returns and the process ends
OpenBrowser ==
  /\ pc = "browser"
  /\ \E opened \in BOOLEAN :
       IF opened
       THEN /\ pc' = "exit"
            /\ exitCode' = 0
            /\ UNCHANGED <<err, errAt, rb>>
       ELSE Raise("webbrowser error")
  /\ UNCHANGED <<cfgVars, trains, prompts, payment_url, fanCalls, token, fanVars, selVars, resVars, otpVars, paxVars, ghostVars, calls>>

(* ------------------------------- the handler ---------------------------- *)
\* the test the wrong way round
TripKnown_inverted(t) == ~(t # <<>> /\ t[1].trip_route_id # 0)

\* line 577, negated: trip and trip.get("trip_route_id"), a missing route id
\* being 0
TripKnown(t) == t # <<>> /\ t[1].trip_route_id # 0

\* a release loop that gives up at the first release request that raises
RollbackRelease_stop ==
  /\ pc = "handler"
  /\ rb <= Len(successfully_reserved)
  /\ IF trip = <<>>
     THEN /\ rb' = rb + 1
          /\ UNCHANGED calls
     ELSE \E raised \in BOOLEAN :
            /\ calls' = Append(calls, Call("RELEASE_SEAT", <<>>, successfully_reserved[rb],
                                           <<>>, NoDetails, raised))
            /\ rb' = IF raised THEN Len(successfully_reserved) + 1 ELSE rb + 1
  /\ UNCHANGED <<cfgVars, trains, prompts, payment_url, fanCalls, pc, token, fanVars, selVars, resVars, otpVars, paxVars,
                 err, errAt, exitCode, ghostVars>>

\* a release loop in which a release request that raises replaces the error
\* being handled and ends the loop
RollbackRelease_escalate ==
  /\ pc = "handler"
  /\ rb <= Len(successfully_reserved)
  /\ IF trip = <<>>
     THEN /\ rb' = rb + 1
          /\ UNCHANGED <<calls, err>>
     ELSE \E raised \in BOOLEAN :
            /\ calls' = Append(calls, Call("RELEASE_SEAT", <<>>, successfully_reserved[rb],
                                           <<>>, NoDetails, raised))
            /\ rb' = IF raised THEN Len(successfully_reserved) + 1 ELSE rb + 1
            /\ err' = IF raised THEN "release failed" ELSE err
  /\ UNCHANGED <<cfgVars, trains, prompts, payment_url, fanCalls, pc, token, fanVars, selVars, resVars, otpVars, paxVars,
                 errAt, exitCode, ghostVars>>

\* a release loop that leaves the seats alone when the user declined
RollbackRelease_skip_abort ==
  /\ pc = "handler"
  /\ rb <= Len(successfully_reserved)
  /\ IF trip = <<>> \/ err \in {"Booking process aborted by user.", "Booking cancelled by user."}
     THEN /\ rb' = rb + 1
          /\ UNCHANGED calls
     ELSE \E raised \in BOOLEAN :
            /\ calls' = Append(calls, Call("RELEASE_SEAT", <<>>, successfully_reserved[rb],
                                           <<>>, NoDetails, raised))
            /\ rb' = rb + 1
  /\ UNCHANGED <<cfgVars, trains, prompts, payment_url, fanCalls, pc, token, fanVars, selVars, resVars, otpVars, paxVars,
                 err, errAt, exitCode, ghostVars>>

\* a release loop that sends a release request that raised once more
RollbackRelease_retry ==
  /\ pc = "handler"
  /\ rb <= Len(successfully_reserved)
  /\ IF trip = <<>>
     THEN /\ rb' = rb + 1
          /\ UNCHANGED calls
     ELSE \E raised \in BOOLEAN :
            /\ calls' = Append(calls, Call("RELEASE_SEAT", <<>>, successfully_reserved[rb],
                                           <<>>, NoDetails, raised))
            /\ rb' = IF raised /\ \A i \in 1..Len(calls) : calls[i].ticket_id # successfully_reserved[rb]
                     THEN rb ELSE rb + 1
  /\ UNCHANGED <<cfgVars, trains, prompts, payment_url, fanCalls, pc, token, fanVars, selVars, resVars, otpVars, paxVars,
                 err, errAt, exitCode, ghostVars>>

\* lines 571-588: one turn of  for tid in successfully_reserved ; the request
\* is skipped when the trip is unknown, and a request that raises is logged
RollbackRelease ==
  /\ pc = "handler"
  /\ rb <= Len(successfully_reserved)
  /\ IF ~TripKnown(trip)
     THEN /\ rb' = rb + 1
          /\ UNCHANGED calls
     ELSE \E raised \in BOOLEAN :
            /\ calls' = Append(calls, Call("RELEASE_SEAT", <<>>, successfully_reserved[rb],
                                           <<>>, NoDetails, raised))
            /\ rb' = rb + 1
  /\ UNCHANGED <<cfgVars, trains, prompts, payment_url, fanCalls, pc, token, fanVars, selVars, resVars, otpVars, paxVars,
                 err, errAt, exitCode, ghostVars>>

\* a handler that reports the error and lets the process end with code 0
Fatal_exit0 ==
  /\ pc = "handler"
  /\ rb > Len(successfully_reserved)
  /\ pc' = "exit"
  /\ exitCode' = 0
  /\ UNCHANGED <<cfgVars, trains, prompts, payment_url, fanCalls, token, fanVars, selVars, resVars, otpVars, paxVars,
                 err, errAt, rb, ghostVars, calls>>

\* lines 589-606 and fatal(), lines 40-47: sys.exit(1)
Fatal ==
  /\ pc = "handler"
  /\ rb > Len(successfully_reserved)
  /\ pc' = "exit"
  /\ exitCode' = 1
  /\ UNCHANGED <<cfgVars, trains, prompts, payment_url, fanCalls, token, fanVars, selVars, resVars, otpVars, paxVars,
                 err, errAt, rb, ghostVars, calls>>

(* ---------------------------- the specification ------------------------- *)
Next ==
  \/ SignIn
  \/ ProceedPrompt
  \/ Search
  \/ ProbeSubmit
  \/ ProbeAsCompleted
  \/ \E i \in 1..Len(futs) : _probe_candidate(i)
  \/ ProbeCollect
  \/ ProbeJoin
  \/ ReserveSubmit
  \/ ReserveAsCompleted
  \/ \E i \in 1..Len(futs) : _reserve_one(i)
  \/ ReserveCollect
  \/ ReserveCommit
  \/ OtpPrompt
  \/ SendOtp
  \/ OtpAttempt
  \/ OtpDone
  \/ CollectPassenger
  \/ PaymentPrompt
  \/ Confirm
  \/ OpenBrowser
  \/ RollbackRelease
  \/ Fatal

Spec == Init /\ [][Next]_vars

\* every request is answered or raises (the timeout of axios_req, line 93),
\* every prompt is answered and every worker thread gets to run: a step of
\* main() or of a worker that can be taken is taken in the end
LiveSpec == Spec /\ WF_vars(Next)

(* ------------------- the seat matcher called on its own ----------------- *)
\* coach allow-lists handed to the call: none, one per coach in another case
\* (one with a blank to trim), and one that is only a part of a coach name
SmCoachLists == {<<>>, << <<"k", "a">> >>, << <<" ", "K", "h">> >>, << <<"k">> >>}

\* seat-number allow-lists handed to the call
SmSeatLists == {<<>>, << <<"1">> >>, << <<"2">> >>}

\* seat numbers of the cells: one "-", two "-", none, and a missing number
SmSeatNumbers == {<<"A", "-", "1">>, <<"A", "-", "1", "-", "2">>, <<"2">>, <<>>}

\* the cells a layout is extended with: free ones, and a taken one
SmCells ==
  {[seat_availability |-> 1, seat_number |-> n] : n \in SmSeatNumbers}
  \cup {[seat_availability |-> 0, seat_number |-> <<"A", "-", "1">>]}

\* the seat-layout document with no cell yet: the coaches, one empty row each
SmEmptyLayout == [c \in 1..Len(CoachNames) |-> [floor_name |-> CoachNames[c], layout |-> << <<>> >>]]

\* lines 123-164 applied to the layout with the inputs of sm
SmCall(layout) ==
  [sm EXCEPT !.layout = layout,
             !.out = find_available_seats([isdict |-> TRUE, seatLayout |-> layout],
                                          sm.needed, sm.coaches, sm.seats)]

SeatInit ==
  /\ CONFIG \in {c \in Configs : /\ c.NEED_SEATS = 1 /\ c.TRAIN_NAME = <<>>
                                  /\ c.PREFERRED_COACHES = <<>> /\ c.PREFERRED_SEATS = <<>>}
  /\ pc = "seat_matcher"
  /\ \E n \in 1..MaxNeed, cl \in SmCoachLists, sl \in SmSeatLists :
       sm = [layout |-> SmEmptyLayout, needed |-> n, coaches |-> cl, seats |-> sl, out |-> <<>>]
  /\ RunInit

\* the layout gets one more cell at the end of the last row of coach c, and
\* the matcher is called on it
SM_AddCell ==
  /\ pc = "seat_matcher"
  /\ Len(FlattenCoaches(sm.layout)) < MaxCells
  /\ \E c \in 1..Len(sm.layout), cell \in SmCells :
       LET rows == sm.layout[c].layout
           seat == [seat_availability |-> cell.seat_availability,
                    ticket_id |-> Len(FlattenCoaches(sm.layout)) + 1,
                    seat_number |-> cell.seat_number]
           rows2 == [rows EXCEPT ![Len(rows)] = Append(rows[Len(rows)], seat)]
       IN  sm' = SmCall([sm.layout EXCEPT ![c].layout = rows2])
  /\ UNCHANGED <<CONFIG, pc, token, calls, trains, prompts, payment_url, fanCalls, fanVars,
                 selVars, resVars, otpVars, paxVars, errVars, ghostVars>>

\* coach c gets a new, still empty row, and the matcher is called on the layout
SM_AddRow ==
  /\ pc = "seat_matcher"
  /\ \E c \in 1..Len(sm.layout) :
       LET rows == sm.layout[c].layout
       IN  /\ Len(rows) < 2
           /\ rows[Len(rows)] # <<>>
           /\ sm' = SmCall([sm.layout EXCEPT ![c].layout = Append(rows, <<>>)])
  /\ UNCHANGED <<CONFIG, pc, token, calls, trains, prompts, payment_url, fanCalls, fanVars,
                 selVars, resVars, otpVars, paxVars, errVars, ghostVars>>

SeatNext ==
  \/ SM_AddCell
  \/ SM_AddRow

SeatSpec == SeatInit /\ [][SeatNext]_vars

(* ------------------------------ properties ------------------------------ *)
CallsOf(ep) == SelectSeq(calls, LAMBDA c : c.ep = ep)

\* ticket ids of the release requests sent so far, in order
ReleasedTids ==
  LET r == CallsOf("RELEASE_SEAT") IN [i \in 1..Len(r) |-> r[i].ticket_id]

NVerify == Len(CallsOf("VERIFY_OTP"))

UserAbort == err \in {"Booking process aborted by user.", "Booking cancelled by user."}

\* the steps after the reservation was committed
PostCommitSteps == {"otp_prompt", "send_otp", "otp_loop", "otp_done", "passengers",
                    "confirm", "browser"}

\* C1: when the reservation step ends with fewer successes than NEED_SEATS,
\* the rollback set is exactly the set of tickets whose reserve call
\* succeeded, and each of them has had a release call when the run has ended.
C1_InsufficientReservationRollsBack ==
  (errAt = "reserve_check" /\ pc \in {"handler", "exit"}) =>
     /\ Range(successfully_reserved) = srvReserved
     /\ (pc = "exit" => Range(ReleasedTids) = srvReserved)

\* C2: a run that failed after the reservation was committed has sent, when
\* it ends, exactly one release request per reserved ticket and no other,
\* whether or not the single release requests raised.
C2_RollbackReleasesEachReservedOnce ==
  (pc = "exit" /\ errAt \in PostCommitSteps) =>
     /\ ReleasedTids = successfully_reserved
     /\ Len(successfully_reserved) = CONFIG.NEED_SEATS
     /\ Cardinality(Range(successfully_reserved)) = Len(successfully_reserved)

C2_Witness ==
  /\ pc = "exit"
  /\ errAt = "confirm"
  /\ Len(ReleasedTids) = 2
  /\ CallsOf("RELEASE_SEAT")[1].raised
  /\ ~CallsOf("RELEASE_SEAT")[2].raised

\* C3: every passenger-details, verify-otp and confirm request carries as
\* ticket_ids exactly the tickets whose reserve call succeeded, each once.
C3_TicketIdsAreTheReservedTickets ==
  \A i \in 1..Len(calls) :
     calls[i].ep \in {"PASSENGER_DETAILS", "VERIFY_OTP", "CONFIRM"} =>
        /\ Range(calls[i].ticket_ids) = srvReserved
        /\ Len(calls[i].ticket_ids) = Cardinality(srvReserved)

C3_Witness ==
  /\ Cardinality(srvReserved) = 2
  /\ CallsOf("PASSENGER_DETAILS") # <<>>
  /\ CallsOf("VERIFY_OTP") # <<>>
  /\ CallsOf("CONFIRM") # <<>>

\* C4: every confirm request has NEED_SEATS ticket ids and NEED_SEATS names,
\* types and genders, the first name being that of the OTP-verified user.
C4_ConfirmHasNeedSeatsEntries ==
  \A i \in 1..Len(calls) :
     calls[i].ep = "CONFIRM" =>
        /\ Len(calls[i].ticket_ids) = CONFIG.NEED_SEATS
        /\ Len(calls[i].pname) = CONFIG.NEED_SEATS
        /\ Len(calls[i].passengerType) = CONFIG.NEED_SEATS
        /\ Len(calls[i].gender) = CONFIG.NEED_SEATS
        /\ otp_verified
        /\ main_passenger # <<>>
        /\ calls[i].pname[1] = main_passenger[1].name

C4_Witness ==
  /\ CONFIG.NEED_SEATS = 2
  /\ CallsOf("CONFIRM") # <<>>
  /\ CallsOf("CONFIRM")[1].pname = << <<"U">>, <<"Q">> >>

\* C5: there are never more than 3 OTP prompts; once the server has accepted
\* an OTP there is no further prompt and no further verify-otp request; a
\* loop that ends without an accepted OTP has used all 3 prompts and is
\* followed by the failure.
C5_OtpLoopAtMostThreeAttempts ==
  [][ /\ otpPrompts' <= 3
      /\ NVerify' <= otpPrompts'
      /\ (otp_verified => otpPrompts' = otpPrompts /\ NVerify' = NVerify)
      /\ (~otp_verified /\ otp_verified' => pc' = "otp_done")
      /\ (pc = "otp_loop" /\ pc' = "otp_done" /\ ~otp_verified' => otpPrompts' = 3)
      /\ (pc = "otp_done" /\ ~otp_verified =>
            pc' = "handler" /\ err' = "OTP verification failed after 3 attempts.")
    ]_vars

C5_Witness ==
  /\ otp_verified
  /\ otpPrompts = 2
  /\ NVerify = 2
  /\ pc = "confirm"

\* C6: the selected trip is the candidate whose probe was the first to finish
\* with at least NEED_SEATS matching seats, and a recorded winner is never
\* replaced.
C6_FirstProbeToQualifyWins ==
  [][ /\ (chosen' # <<>> => chosen'[1].cand = firstQualified')
      /\ (chosen # <<>> => chosen' = chosen)
    ]_vars

\* C7: a run the user declined at the prompt after sign-in ends without a
\* release request; a run the user declined at the prompt before the OTP or
\* before payment ends with a release request for every reserved ticket.
C7_DeclineBeforeAndAfterReservation ==
  /\ (pc = "exit" /\ errAt = "proceed") => ReleasedTids = <<>> /\ srvReserved = {}
  /\ (pc = "exit" /\ errAt \in {"otp_prompt", "passengers"} /\ UserAbort) =>
        /\ srvReserved # {}
        /\ Range(ReleasedTids) = srvReserved
        /\ Len(ReleasedTids) = Cardinality(srvReserved)

C7_Witness ==
  /\ pc = "exit"
  /\ errAt = "passengers"
  /\ err = "Booking cancelled by user."
  /\ Len(ReleasedTids) = 2

\* C8: the exit code is 0 exactly when the booking succeeded or the user
\* declined at the prompt after sign-in.
C8_ExitCodeZeroOnSuccessOrEarlyCancel ==
  pc = "exit" =>
     (exitCode = 0 <=> (errAt = "" \/ (errAt = "proceed" /\ UserAbort)))

\* C9: the handler never changes the error it handles and never leaves the
\* release loop early: when it ends, every ticket of the rollback set has had
\* its release request, raised or not, and the exit code is not 0.
C9_RollbackNeverRaises ==
  [][ pc = "handler" =>
        /\ err' = err
        /\ errAt' = errAt
        /\ pc' \in {"handler", "exit"}
        /\ (pc' = "exit" =>
              /\ exitCode' # 0
              /\ Len(ReleasedTids') = Len(successfully_reserved'))
    ]_vars

C9_Witness ==
  /\ pc = "exit"
  /\ exitCode = 1
  /\ err = "Could not get payment URL."
  /\ Len(ReleasedTids) = 2
  /\ CallsOf("RELEASE_SEAT")[1].raised

\* C10: in no step does a ticket leave the rollback set, unless the step
\* sends a release request for it; and the step that commits the reservation
\* puts every successfully reserved ticket into the rollback set.
C10_RollbackSetNeverLosesTickets ==
  [][ /\ \A t \in Range(successfully_reserved) :
           \/ t \in Range(successfully_reserved')
           \/ /\ Len(ReleasedTids') = Len(ReleasedTids) + 1
              /\ ReleasedTids'[Len(ReleasedTids')] = t
      /\ (pc = "reserve_check" /\ pc' = "otp_prompt" =>
            Range(successfully_reserved') = srvReserved')
    ]_vars

C10_Witness ==
  /\ pc = "handler"
  /\ rb = 2
  /\ Len(ReleasedTids) = 1
  /\ Range(successfully_reserved) = srvReserved
  /\ Cardinality(srvReserved) = 2

(* ------------------------ seat matcher properties ----------------------- *)
\* the cell of the layout that carries the ticket id of a returned seat
SmCellOf(layout, tid) ==
  LET cells == FlattenCoaches(layout)
  IN  cells[CHOOSE k \in 1..Len(cells) : cells[k].ticket_id = tid]

\* is the cell with this ticket id in coach c of the layout
SmInCoach(layout, c, tid) ==
  \E k \in 1..Len(FlattenRows(layout[c].layout)) : FlattenRows(layout[c].layout)[k].ticket_id = tid

\* C11: whatever the layout, the count and the filters, the matcher returns
\* at most needed seats and only seats whose availability flag is 1, and the
\* result for a layout extended by a cell or a row is never shorter than the
\* result for the layout before.
C11_AtMostNeededAvailableAndMonotone ==
  [][sm' # sm =>
       /\ Len(sm'.out) <= sm'.needed
       /\ \A i \in 1..Len(sm'.out) :
             SmCellOf(sm'.layout, sm'.out[i].ticket_id).seat_availability = 1
       /\ Len(sm'.out) >= Len(sm.out)]_vars

\* the cap has cut the result short of a layout that also holds a taken cell
C11_Witness ==
  /\ pc = "seat_matcher"
  /\ Len(sm.out) = sm.needed
  /\ Cardinality({k \in 1..Len(FlattenCoaches(sm.layout)) :
                    SeatMatches(FlattenCoaches(sm.layout)[k], sm.seats)}) > sm.needed
  /\ \E k \in 1..Len(FlattenCoaches(sm.layout)) :
        FlattenCoaches(sm.layout)[k].seat_availability = 0

\* C12: with a non-empty coach allow-list every returned seat lies in a
\* coach whose name equals, letter case aside, an entry of the list (the
\* entries taken without surrounding blanks); a coach whose name only
\* contains an entry, or is contained in one, is not searched.
C12_OnlyListedCoaches ==
  (pc = "seat_matcher" /\ sm.coaches # <<>>) =>
     \A i \in 1..Len(sm.out) :
        \E c \in 1..Len(sm.layout) :
           /\ SmInCoach(sm.layout, c, sm.out[i].ticket_id)
           /\ \E p \in 1..Len(sm.coaches) :
                 Lower(sm.layout[c].floor_name) = Lower(Strip(sm.coaches[p]))

\* a seat of the listed coach is returned while a free, numbered seat of the
\* other coach stands earlier in the document and is left out
C12_Witness ==
  /\ pc = "seat_matcher"
  /\ sm.coaches # <<>>
  /\ sm.seats = <<>>
  /\ sm.out # <<>>
  /\ \E k \in 1..Len(FlattenCoaches(sm.layout)) :
        LET cell == FlattenCoaches(sm.layout)[k]
        IN  /\ cell.seat_availability = 1
            /\ cell.seat_number # <<>>
            /\ cell.ticket_id < sm.out[1].ticket_id
            /\ \A i \in 1..Len(sm.out) : sm.out[i].ticket_id # cell.ticket_id

\* positions of the "-" characters of a seat number
SmDashes(s) == {k \in 1..Len(s) : s[k] = "-"}

SmMin(S) == CHOOSE x \in S : \A y \in S : x <= y

SmMax(S) == CHOOSE x \in S : \A y \in S : x >= y

\* what follows the last "-" of a seat number, the whole number without "-"
SmAfterLastDash(s) ==
  IF SmDashes(s) = {} THEN s ELSE SubSeq(s, SmMax(SmDashes(s)) + 1, Len(s))

\* what stands between the first "-" and the second one (or the end), the
\* whole number without "-"
SmSecondPart(s) ==
  IF SmDashes(s) = {} THEN s
  ELSE LET first == SmMin(SmDashes(s))
           later == {k \in SmDashes(s) : k > first}
       IN  SubSeq(s, first + 1, IF later = {} THEN Len(s) ELSE SmMin(later) - 1)

\* the first n elements of s, all of them when there are fewer
SmTake(s, n) == SubSeq(s, 1, IF Len(s) < n THEN Len(s) ELSE n)

SmEntries(cells) == [i \in 1..Len(cells) |-> [ticket_id |-> cells[i].ticket_id,
                                              seat_number |-> cells[i].seat_number]]

\* the coaches of the layout that the coach allow-list lets through
SmListedCoaches(layout, coaches) ==
  SelectSeq(layout, LAMBDA c : coaches = <<>> \/
                               \E p \in 1..Len(coaches) : Lower(c.floor_name) = Lower(Strip(coaches[p])))

\* C13 as stated: with a seat-number allow-list (and no coach allow-list)
\* the result is the first needed free seats, in document order, whose
\* number after its last "-" is in the list.
C13_SeatFilterByLastSuffix ==
  (pc = "seat_matcher" /\ sm.seats # <<>> /\ sm.coaches = <<>>) =>
     sm.out = SmEntries(SmTake(SelectSeq(FlattenCoaches(sm.layout),
                                         LAMBDA x : /\ x.seat_availability = 1
                                                    /\ x.seat_number # <<>>
                                                    /\ SmAfterLastDash(x.seat_number) \in Range(sm.seats)),
                               sm.needed))

\* C13 amended: with a seat-number allow-list the result is the first needed
\* (all, if fewer) free and numbered seats, in document order, of the
\* searched coaches (every coach without a coach allow-list) whose second
\* "-"-separated part of the seat number, the whole number when it has no
\* "-", is in the list.
C13_SeatFilterBySecondPart ==
  (pc = "seat_matcher" /\ sm.seats # <<>>) =>
     sm.out = SmEntries(SmTake(SelectSeq(FlattenCoaches(SmListedCoaches(sm.layout, sm.coaches)),
                                         LAMBDA x : /\ x.seat_availability = 1
                                                    /\ x.seat_number # <<>>
                                                    /\ SmSecondPart(x.seat_number) \in Range(sm.seats)),
                               sm.needed))

\* a seat numbered A-1-2 is returned for the list ["1"]
C13_Witness ==
  /\ pc = "seat_matcher"
  /\ sm.seats = << <<"1">> >>
  /\ \E i \in 1..Len(sm.out) : sm.out[i].seat_number = <<"A", "-", "1", "-", "2">>

(* ------------------------- reservation and stages ----------------------- *)
\* the ticket ids of the result tuples that report a success
OkTids(res) == {res[i].tid : i \in {k \in 1..Len(res) : res[k].ok}}

\* C14: when the reserve fan-out has ended with at least NEED_SEATS
\* successes, the next step of main() commits: it goes on to the OTP stage
\* with the rollback set holding exactly the tickets reported as reserved,
\* raises nothing and sends no request, and no release request has been sent
\* when the OTP stage is entered.
C14_EnoughSuccessesCommitWithoutRelease ==
  [][ /\ (pc = "reserve_check" /\ Cardinality(OkTids(results)) >= CONFIG.NEED_SEATS) =>
            /\ pc' = "otp_prompt"
            /\ Range(successfully_reserved') = OkTids(results)
            /\ Len(successfully_reserved') = Cardinality(OkTids(results))
            /\ err' = ""
            /\ calls' = calls
      /\ (pc' = "otp_prompt" => CallsOf("RELEASE_SEAT")' = <<>>)
    ]_vars

\* two tickets were needed, both reserve requests succeeded and the run
\* stands at the OTP stage without any release request
C14_Witness ==
  /\ pc = "otp_prompt"
  /\ CONFIG.NEED_SEATS = 2
  /\ Len(results) = 2
  /\ Range(successfully_reserved) = OkTids(results)
  /\ Len(successfully_reserved) = 2
  /\ CallsOf("RELEASE_SEAT") = <<>>

\* this step sends a request to the endpoint ep
Sends(ep) == Len(calls') = Len(calls) + 1 /\ calls'[Len(calls')].ep = ep

\* this step gets an answer to a fan-out request of the given kind
FanAnswers(kind) ==
  \E k \in DOMAIN fanCalls' :
     /\ k[1] = kind
     /\ (k \in DOMAIN fanCalls => Len(fanCalls'[k]) > Len(fanCalls[k]))

\* the place of an endpoint in the order of the stages
StageRank(ep) ==
  CASE ep = "SIGNIN" -> 1 [] ep = "SEARCH" -> 2 [] ep = "PASSENGER_DETAILS" -> 5
    [] ep = "VERIFY_OTP" -> 6 [] ep = "CONFIRM" -> 8 [] OTHER -> 9

\* the prompt shown last was of this kind and was answered with a yes
LastPromptYes(kind) ==
  /\ prompts # <<>>
  /\ prompts[Len(prompts)].kind = kind
  /\ prompts[Len(prompts)].ok

\* C15: the requests of a run follow the order of the stages, and each
\* stage starts only on what the stage before has left: a search only with a
\* token, a seat-layout request only after a search that gave candidates, a
\* reserve request only for a selected trip with at least NEED_SEATS matched
\* seats, the passenger-details request only with at least NEED_SEATS
\* reserved tickets, a verify request only after it, the confirm request only
\* with an OTP the server has accepted, the details of NEED_SEATS passengers
\* and a yes at the payment prompt, and the run ends with success only with
\* a redirect URL.
C15_StagesInOrderAndGated ==
  [][ /\ \A i \in 1..(Len(calls') - 1) :
            StageRank(calls'[i].ep) <= StageRank(calls'[i + 1].ep)
      /\ (Sends("SEARCH") =>
            /\ token # <<>>
            /\ LastPromptYes("proceed")
            /\ CallsOf("SEARCH") = <<>>)
      /\ (FanAnswers("SEAT_LAYOUT") =>
            /\ candidates # <<>>
            /\ calls[Len(calls)].ep = "SEARCH"
            /\ ~calls[Len(calls)].raised
            /\ trip = <<>>)
      /\ (FanAnswers("RESERVE") =>
            /\ trip # <<>>
            /\ \E c \in 1..Len(candidates) :
                  /\ SeatTypeFor(candidates[c], CONFIG.SEAT_CLASS) # <<>>
                  /\ trip[1] = TripOf(candidates[c], CONFIG.SEAT_CLASS)
            /\ Len(available_seats) >= CONFIG.NEED_SEATS
            /\ calls[Len(calls)].ep = "SEARCH"
            /\ successfully_reserved = <<>>)
      /\ (Sends("PASSENGER_DETAILS") =>
            /\ Len(successfully_reserved) >= CONFIG.NEED_SEATS
            /\ Range(successfully_reserved) \subseteq srvReserved
            /\ LastPromptYes("otp_proceed"))
      /\ (Sends("VERIFY_OTP") =>
            /\ CallsOf("PASSENGER_DETAILS") # <<>>
            /\ ~CallsOf("PASSENGER_DETAILS")[1].raised
            /\ ~otp_verified)
      /\ (Sends("CONFIRM") =>
            /\ otp_verified
            /\ NVerify >= 1
            /\ Len(passenger_details.pname) = CONFIG.NEED_SEATS
            /\ LastPromptYes("payment"))
      /\ (pc' = "exit" /\ exitCode' = 0 =>
            /\ payment_url' # <<>>
            /\ CallsOf("CONFIRM")' # <<>>
            /\ ~CallsOf("CONFIRM")'[1].raised)
    ]_vars

\* a booking of two seats has gone through every stage and ended with exit
\* code 0 and a redirect URL, after one OTP that the server turned down
C15_Witness ==
  /\ pc = "exit"
  /\ exitCode = 0
  /\ payment_url # <<>>
  /\ CONFIG.NEED_SEATS = 2
  /\ NVerify = 2
  /\ Len(prompts) = 2 + 2 + 3 + 1

\* the endpoints that belong to a stage that is run once
OnceEndpoints == {"SIGNIN", "SEARCH", "PASSENGER_DETAILS", "CONFIRM"}

\* C16: in one run the sign-in, search, passenger-details and confirm
\* endpoints are each called at most once, the seat layout of a train is
\* requested at most once, a ticket gets at most one reserve request and at
\* most one release request, and the verify-otp endpoint is called at most 3
\* times.
C16_NoStageRetriedButOtp ==
  /\ \A ep \in OnceEndpoints : Len(CallsOf(ep)) <= 1
  /\ \A k \in DOMAIN fanCalls : Len(fanCalls[k]) <= 1
  /\ Cardinality(Range(ReleasedTids)) = Len(ReleasedTids)
  /\ NVerify <= 3

\* a run has called verify-otp three times and has then released its two
\* tickets, the first release request having raised
C16_Witness ==
  /\ pc = "exit"
  /\ NVerify = 3
  /\ Len(ReleasedTids) = 2
  /\ CallsOf("RELEASE_SEAT")[1].raised
  /\ Cardinality({k \in DOMAIN fanCalls : k[1] = "RESERVE"}) = 2
  /\ Cardinality({k \in DOMAIN fanCalls : k[1] = "SEAT_LAYOUT"}) >= 2

\* the answer to a reserve request makes the attempt a failure: the request
\* raised, or the status is 300 or above, or the body carries data.error
FailedAnswer(a) == a.raised \/ a.status >= 300 \/ a.error

\* the steps of main() during which the reserve fan-out exists
ReserveSteps == {"reserve_submit", "reserve_collect", "reserve_check"}

\* C17: when the reserve fan-out has ended, every ticket of the selected
\* seats has had exactly one reserve request and the results hold exactly one
\* tuple for it, with the outcome of its own request, whatever the order in
\* which the requests ended; an attempt ends as failed exactly when its
\* request raised or was answered with a status of 300 or above or with
\* data.error set; and the step that ends one attempt leaves every other
\* attempt as it was, so that a failure cancels none of them.
C17_ReserveOutcomesByIdentity ==
  [][ /\ (pc' = "reserve_check" =>
            /\ Len(results') = Len(ticket_ids_to_reserve')
            /\ \A i \in 1..Len(ticket_ids_to_reserve') :
                  /\ futs'[i].st = "done"
                  /\ <<"RESERVE", ticket_ids_to_reserve'[i]>> \in DOMAIN fanCalls'
                  /\ Len(fanCalls'[<<"RESERVE", ticket_ids_to_reserve'[i]>>]) = 1
                  /\ Cardinality({k \in 1..Len(results') :
                                    results'[k].tid = ticket_ids_to_reserve'[i]}) = 1
                  /\ \A k \in 1..Len(results') :
                        results'[k].tid = ticket_ids_to_reserve'[i] =>
                           /\ results'[k].ok = futs'[i].ok
                           /\ (results'[k].ok <=> ticket_ids_to_reserve'[i] \in srvReserved'))
      /\ \A i \in 1..Len(futs) :
            (pc \in ReserveSteps /\ futs[i].st = "running" /\ futs'[i].st = "done") =>
               /\ lastReserve' # <<>>
               /\ lastReserve'[1].tid = ticket_ids_to_reserve[i]
               /\ (futs'[i].ok <=> ~FailedAnswer(lastReserve'[1].response))
               /\ \A j \in 1..Len(futs) : j # i => futs'[j] = futs[j]
               /\ results' = results
    ]_vars

\* the second ticket's request ended first and succeeded, the first ticket's
\* request ended later with data.error set, and both are in the results,
\* the second before the first
C17_Witness ==
  /\ pc = "reserve_check"
  /\ Len(results) = 2
  /\ finishOrder = <<2, 1>>
  /\ results[1] = [ok |-> TRUE, tid |-> ticket_ids_to_reserve[2]]
  /\ results[2] = [ok |-> FALSE, tid |-> ticket_ids_to_reserve[1]]
  /\ lastReserve # <<>>
  /\ lastReserve[1].response.error

(* ------------------------------ OTP entries ----------------------------- *)
\* C18: an OTP entry that is empty or not 4 to 6 digits sends no verify-otp
\* request and still uses up one of the three attempts: the step that reads
\* it sends nothing and moves the loop on by one, the verify-otp requests
\* sent are as many as the entries of 4 to 6 digits, and there are at most 3
\* OTP prompts.
C18_MalformedOtpUsesAnAttempt ==
  [][ /\ (otpPrompts' = otpPrompts + 1 /\ otpDigitEntries' = otpDigitEntries) =>
            /\ calls' = calls
            /\ attempt' = attempt + 1
            /\ ~otp_verified'
            /\ (pc' = "otp_done" <=> otpPrompts' = 3)
      /\ (otpPrompts' = otpPrompts + 1 /\ otpDigitEntries' = otpDigitEntries + 1) =>
            Sends("VERIFY_OTP")
      /\ NVerify' = otpDigitEntries'
      /\ otpPrompts' <= 3
      /\ (pc' = "otp_loop" => attempt' = otpPrompts' + 1)
    ]_vars

\* three OTP prompts, two of them answered with something that is not 4 to
\* 6 digits, one verify-otp request, and the loop has ended without success
C18_Witness ==
  /\ pc = "otp_done"
  /\ otpPrompts = 3
  /\ otpDigitEntries = 1
  /\ NVerify = 1
  /\ ~otp_verified

(* ------------------------------ candidates ------------------------------ *)
\* the seat-layout requests answered so far, as a set of train ids
ProbedTrains == {k[2] : k \in {x \in DOMAIN fanCalls : x[1] = "SEAT_LAYOUT"}}

\* c holds the k trains of list (all, if fewer) with the highest advertised
\* online counts for the class, highest first
IsTopByOnline(c, list, k, seat_class) ==
  /\ Len(c) = (IF Len(list) < k THEN Len(list) ELSE k)
  /\ Range(c) \subseteq Range(list)
  /\ Cardinality(Range(c)) = Len(c)
  /\ \A i \in 1..(Len(c) - 1) :
        _online_seats_for_class(c[i], seat_class) >= _online_seats_for_class(c[i + 1], seat_class)
  /\ \A t \in Range(list) \ Range(c) : \A i \in 1..Len(c) :
        _online_seats_for_class(c[i], seat_class) >= _online_seats_for_class(t, seat_class)

\* C19: the search step leaves as candidates exactly the K = 3 trains (all,
\* if fewer) of the name-filtered search result with the highest advertised
\* online counts for the requested class, highest first; seat layouts are
\* requested for candidates only, at most 3 in a run; and the selected trip
\* is the trip of one of the candidates.
C19_ProbedAreTopKByOnline ==
  [][ /\ (pc = "search" /\ pc' = "probe_submit" =>
            /\ trains' # <<>>
            /\ \A i \in 1..Len(trains') :
                  CONFIG.TRAIN_NAME # <<>> =>
                     IsSubstring(CONFIG.TRAIN_NAME, Lower(trains'[i].trip_number))
            /\ K = 3
            /\ IsTopByOnline(candidates', trains', 3, CONFIG.SEAT_CLASS))
      /\ (candidates # <<>> => candidates' = candidates)
      /\ ProbedTrains' \subseteq {candidates'[i].id : i \in 1..Len(candidates')}
      /\ Cardinality(ProbedTrains') <= 3
      /\ \A k \in DOMAIN fanCalls' : k[1] = "SEAT_LAYOUT" => Len(fanCalls'[k]) = 1
      /\ (trip' # <<>> =>
            \E c \in 1..Len(candidates') :
               /\ SeatTypeFor(candidates'[c], CONFIG.SEAT_CLASS) # <<>>
               /\ trip'[1] = TripOf(candidates'[c], CONFIG.SEAT_CLASS))
    ]_vars

\* the search gave four trains; the three candidates are not the first three
\* of them, all three layouts were requested and the trip of the candidate
\* listed last in the search result was selected
C19_Witness ==
  /\ Len(candidates) = 3
  /\ candidates[1].id = 3
  /\ candidates[2].id = 4
  /\ Cardinality(ProbedTrains) = 3
  /\ trip # <<>>
  /\ trip[1] = TripOf(candidates[2], CONFIG.SEAT_CLASS)

(* ------------------------- prompts and fan-outs ------------------------- *)
\* the requests of a fan-out that have been submitted and not yet answered
InFlight == {i \in 1..Len(futs) : futs[i].st = "running"}

\* C20: no prompt is shown while a request of a fan-out is in flight: a step
\* that shows a prompt starts with no probe and no reserve request
\* unanswered, a request in flight stays in flight until it is answered (the
\* futures are given up only when all of them are done), and once the
\* handler with its release requests runs no prompt is shown any more.
C20_NoPromptDuringFanOut ==
  [][ /\ (Len(prompts') > Len(prompts) => InFlight = {} /\ futs = <<>>)
      /\ \A i \in InFlight : i <= Len(futs') /\ futs'[i].st \in {"running", "done"}
      /\ (pc \in {"handler", "exit"} => prompts' = prompts)
    ]_vars

\* the first OTP prompt has been shown after a probe fan-out over three
\* trains and a reserve fan-out over two tickets, all of them answered
C20_Witness ==
  /\ pc = "otp_loop"
  /\ otpPrompts = 1
  /\ Len(prompts) = 3
  /\ prompts[3].kind = "otp"
  /\ futs = <<>>
  /\ Cardinality(ProbedTrains) = 3
  /\ Cardinality({k \in DOMAIN fanCalls : k[1] = "RESERVE"}) = 2

(* ------------------------------ termination ----------------------------- *)
\* the run has ended with the payment link opened
RunDone == pc = "exit" /\ exitCode = 0 /\ err = "" /\ payment_url # <<>>

\* the run has ended in the handler, with exit code 1
RunFailed == pc = "exit" /\ exitCode = 1 /\ err # ""

\* C21: every run ends, and ends as Done or as Failed and not both; in every
\* state in which the run has not ended a step is possible that does not
\* end it as Done, which with the first part means that Failed can be
\* reached from there; and after the end no request is sent.
C21_EndsDoneOrFailed ==
  /\ <>(pc = "exit")
  /\ [](pc = "exit" => (RunDone \/ RunFailed) /\ ~(RunDone /\ RunFailed))
  /\ [](pc # "exit" => ENABLED <<Next /\ ~RunDone'>>_vars)
  /\ [][pc = "exit" => calls' = calls /\ fanCalls' = fanCalls]_vars

\* a run has ended as Failed after its confirm request was sent
C21_Witness ==
  /\ RunFailed
  /\ CallsOf("CONFIRM") # <<>>
  /\ errAt = "confirm"

(* ------------------------- failures in a fan-out ------------------------ *)
\* the steps of main() during which the probe fan-out exists
ProbeSteps == {"probe_submit", "probe_collect", "probe_join"}

\* C22: a request of a fan-out that raises (a timeout or another network
\* error) makes its own item a failure and nothing else: the candidate of a
\* seat-layout request that raised counts as not qualified and the ticket of
\* a reserve request that raised as not reserved, the step leaves the other
\* requests, the position of main() and the error state as they were, the
\* item has had exactly one request, and when the probes have all ended the
\* run goes on to the reservation if any candidate qualified.
C22_FanOutFailureIsItemFailure ==
  [][ /\ \A i \in 1..Len(futs) :
            (pc \in ProbeSteps /\ futs[i].st = "running" /\ futs'[i].st = "done"
               /\ lastProbe' # <<>> /\ lastProbe'[1] = [cand |-> i, raised |-> TRUE]) =>
               /\ ~futs'[i].ok
               /\ \A j \in 1..Len(futs) : j # i => futs'[j] = futs[j]
               /\ pc' = pc /\ err' = err /\ chosen' = chosen
               /\ Len(fanCalls'[<<"SEAT_LAYOUT", candidates[i].id>>]) = 1
      /\ \A i \in 1..Len(futs) :
            (pc \in ReserveSteps /\ futs[i].st = "running" /\ futs'[i].st = "done"
               /\ lastReserve' # <<>> /\ lastReserve'[1].response.raised) =>
               /\ lastReserve'[1].tid = ticket_ids_to_reserve[i]
               /\ ~futs'[i].ok
               /\ ticket_ids_to_reserve[i] \notin srvReserved'
               /\ \A j \in 1..Len(futs) : j # i => futs'[j] = futs[j]
               /\ pc' = pc /\ err' = err /\ results' = results
               /\ Len(fanCalls'[<<"RESERVE", ticket_ids_to_reserve[i]>>]) = 1
      /\ (pc = "probe_join" /\ pc' # "probe_join" =>
            /\ InFlight = {}
            /\ ((\E i \in 1..Len(futs) : futs[i].ok) => pc' = "reserve_submit" /\ err' = ""))
      /\ (pc' = "reserve_check" =>
            \A k \in 1..Len(results') :
               (results'[k].tid \notin srvReserved') => ~results'[k].ok)
    ]_vars

\* the first candidate did not qualify and the run has gone on with a later
\* one to the reservation, where the reserve request of one ticket raised
\* after the other ticket had been reserved
C22_Witness ==
  /\ pc = "reserve_collect"
  /\ firstQualified > 1
  /\ Len(finishOrder) = 2
  /\ lastReserve # <<>>
  /\ lastReserve[1].response.raised
  /\ Cardinality(srvReserved) = 1
  /\ futs[finishOrder[1]].ok
  /\ ~futs[finishOrder[2]].ok

(* --------------------------- seats to reserve --------------------------- *)
\* the tickets that have had a reserve request
ReserveRequested == {k[2] : k \in {x \in DOMAIN fanCalls : x[1] = "RESERVE"}}

\* the ticket ids of the seat layout of the train with this trip id
LayoutTickets(trip_id) == {TicketId(trip_id, c[1], c[2]) : c \in Cells}

\* C23: a selected trip comes with exactly NEED_SEATS matched seats, all of
\* them from the seat layout of the selected train; reserve requests are
\* sent for these tickets only, each with the route id of the selected trip,
\* NEED_SEATS of them when the fan-out has ended; and the error 'found fewer
\* seats than needed' of line 343 is never raised.
C23_ReservesExactlyNeedSeats ==
  [][ /\ (trip' # <<>> =>
            /\ Len(available_seats') = CONFIG.NEED_SEATS
            /\ Cardinality(Range(ticket_ids_to_reserve')) = CONFIG.NEED_SEATS
            /\ Range(ticket_ids_to_reserve') \subseteq LayoutTickets(trip'[1].trip_id))
      /\ ReserveRequested' \subseteq Range(ticket_ids_to_reserve')
      /\ Cardinality(ReserveRequested') <= CONFIG.NEED_SEATS
      /\ (pc' = "reserve_check" => Cardinality(ReserveRequested') = CONFIG.NEED_SEATS)
      /\ (ReserveRequested' # ReserveRequested =>
            /\ trip # <<>>
            /\ lastReserve' # <<>>
            /\ ReserveRequested' = ReserveRequested \cup {lastReserve'[1].tid}
            /\ lastReserve'[1].route_id = trip[1].trip_route_id)
      /\ err' # "Could not find enough seats matching preferences."
    ]_vars

\* one seat was needed and one reserve request has been sent, for a seat of
\* the selected train, with the fan-out ended
C23_Witness ==
  /\ pc = "reserve_check"
  /\ CONFIG.NEED_SEATS = 1
  /\ Cardinality(ReserveRequested) = 1
  /\ ReserveRequested \subseteq LayoutTickets(trip[1].trip_id)
  /\ lastReserve[1].route_id = trip[1].trip_route_id

(* ------------------------- after the confirmation ----------------------- *)
\* C24: once the confirm request has been answered with status 200 and a
\* redirect URL, no release request is sent for the booked tickets, whatever
\* happens afterwards.
C24_NoReleaseAfterConfirm ==
  payment_url # <<>> => CallsOf("RELEASE_SEAT") = <<>>

\* C25: whenever the rollback set is not empty the selected trip and its
\* route id are known, and every turn of the release loop sends a release
\* request for the ticket it stands at: the branch that skips the request is
\* never taken.
C25_RollbackAlwaysKnowsTheTrip ==
  [][ /\ (successfully_reserved' # <<>> =>
            /\ trip' # <<>>
            /\ trip'[1].trip_route_id # 0
            /\ \E c \in 1..Len(candidates') :
                  /\ SeatTypeFor(candidates'[c], CONFIG.SEAT_CLASS) # <<>>
                  /\ trip'[1] = TripOf(candidates'[c], CONFIG.SEAT_CLASS))
      /\ (pc = "handler" /\ rb <= Len(successfully_reserved) =>
            /\ Sends("RELEASE_SEAT")
            /\ calls'[Len(calls')].ticket_id = successfully_reserved[rb]
            /\ rb' = rb + 1)
    ]_vars

\* the handler has gone through a rollback set of two tickets, and each of
\* them has had its release request
C25_Witness ==
  /\ pc = "handler"
  /\ Len(successfully_reserved) = 2
  /\ rb = 3
  /\ ReleasedTids = successfully_reserved
  /\ TripKnown(trip)

====
